---- MODULE Spec2Model ----
(***************************************************************************)
(* Rescheduling of EV charging in one cluster (datafev):                   *)
(*   reschedule()          src/src/datafev/algorithms/cluster/             *)
(*                         rescheduling_milp.py                            *)
(*   charging_protocol()   src/protocols/chargingcontrol/                  *)
(*                         centralized_milp.py                             *)
(*                                                                         *)
(* Numbers.  The program computes with floats; the model computes with     *)
(* exact rationals on a grid, every quantity being an integer numerator:   *)
(*   SOC, y          in units of 1/SocScale                                *)
(*   power           in kW (whole numbers)                                 *)
(*   efficiencies    in units of 1/EffDen                                  *)
(*   p_cc, eps       in units of 1/EffDen kW                               *)
(*   deptime         in units of 1/DepDen step                             *)
(* Equalities and inequalities of the source are cross-multiplied, so they *)
(* are decided exactly.  Float rounding is not modelled.                   *)
(***************************************************************************)
EXTENDS Integers, Sequences, FiniteSets, TLC

\* ---------------------------------------------------------------- bounds
MaxH == 2         \* longest optimization horizon (number of flow steps)
MaxP == 2         \* top of the grid of p_ev_pos / p_ev_neg (kW)
MaxY == 4         \* top of the grid of the deviation slack y
MaxEps == 3       \* top of the grid of the violation slack eps
SocScale == 4     \* SOC resolution: SOC 1.0 is SocScale
EffDen == 2       \* efficiency resolution: efficiency 1.0 is EffDen
DepDen == 2       \* departure resolution: one step is DepDen
MaxHA == 3        \* longest horizon of the single-vehicle charging scenario
MaxCalls == 2     \* calls of reschedule made one after the other by one caller

SecPerHour == 3600   \* the divisor of obj_rule

None == "None"       \* Python's None: the value of a variable never set

VARIABLES
    \* the arguments of reschedule
    opt_step, opt_horizon, upperlimit, lowerlimit, tolerance,
    bcap, inisoc, tarsoc, minsoc, maxsoc, ch_eff, ds_eff,
    pmax_pos, pmax_neg, deptime, rho_y, rho_eps,
    \* the call
    pc,            \* "call" | "built" | "solved" | "returned" | "raised", and in
                   \* charging_protocol "protocol" | "skipped" | "applied"
    exc,           \* the exception that left reschedule, or None
    model,         \* values of the pyomo variables; model.loaded tells whether
                   \* the solver has loaded a solution into them
    result,        \* termination condition of solver.solve, or None
    solve_calls,   \* number of calls of solver.solve
    p_schedule, s_schedule,   \* the returned mappings, empty until returned
    \* charging_protocol and the system it controls
    system,        \* the cluster, its chargers and the vehicles (a record),
                   \* None when reschedule is called directly
    connected_ev,  \* charger -> vehicle id or None
    cu_supply,     \* charger -> the powers cu.supply was called with, in order
    \* history
    calls          \* the calls of reschedule that have returned, in order: their
                   \* arguments, the solver's result, the value of eps and the
                   \* mappings returned

inputs == <<opt_step, opt_horizon, upperlimit, lowerlimit, tolerance,
            bcap, inisoc, tarsoc, minsoc, maxsoc, ch_eff, ds_eff,
            pmax_pos, pmax_neg, deptime, rho_y, rho_eps>>

plant == <<system, connected_ev, cu_supply>>

vars == <<inputs, pc, exc, model, result, solve_calls, p_schedule, s_schedule, plant, calls>>

\* ------------------------------------------------------------ index sets
Range(f) == {f[i] : i \in DOMAIN f}

SetMax(S) == CHOOSE x \in S : \A y \in S : y <= x

\* model.V = Set(initialize=list(bcap.keys()))
V == DOMAIN bcap

\* model.T = Set(initialize=opt_horizon[:-1])
T == {opt_horizon[i] : i \in 1..(Len(opt_horizon) - 1)}

\* model.Tp = Set(initialize=opt_horizon)
Tp == Range(opt_horizon)

\* max(opt_horizon)
LastStep == SetMax(Tp)

\* ------------------------------------------------- the constraint library
\* An assignment m gives every pyomo variable a value:
\*   m.p_ev[v][t], m.p_ev_pos[v][t], m.p_ev_neg[v][t], m.x_ev[v][t]  (t in T)
\*   m.s[v][t] (t in Tp), m.p_cc[t] (t in T), m.eps, m.y[v]
\* Each rule below is the rule of the same name in reschedule.

\* (a slip: the initial SOC as an upper bound instead of an equality)
initialsoc_atmost(m, v) == m.s[v][0] <= inisoc[v]

initialsoc(m, v) == m.s[v][0] = inisoc[v]

minimumsoc(m, v, t) == minsoc[v] <= m.s[v][t]

\* (a slip: the bound 1.0 of every battery instead of the vehicle's s_max)
maximumsoc_full(m, v, t) == SocScale >= m.s[v][t]

\* (a slip: the bound imposed on the SOC at the end of the step as well, which
\* reaches the terminal SOC)
maximumsoc_alsoterminal(m, v, t) ==
    maxsoc[v] >= m.s[v][t] /\ maxsoc[v] >= m.s[v][t + 1]

maximumsoc(m, v, t) == maxsoc[v] >= m.s[v][t]

\* s[v,t+1] == s[v,t] + (p_ev_pos[v,t] - p_ev_neg[v,t]) / E[v] * deltaSec,
\* multiplied by E[v] * SocScale
storageConservation(m, v, t) ==
    m.s[v][t + 1] * bcap[v] =
        m.s[v][t] * bcap[v]
        + (m.p_ev_pos[v][t] - m.p_ev_neg[v][t]) * opt_step * SocScale

\* (a slip: the discharge part left out of the net power)
chargepowerlimit_posonly(m, v, t) == m.p_ev[v][t] = m.p_ev_pos[v][t]

chargepowerlimit(m, v, t) == m.p_ev[v][t] = m.p_ev_pos[v][t] - m.p_ev_neg[v][t]

\* (a slip: > for >=, the departure step itself still controllable)
Departed_strict(v, t) == t * DepDen > deptime[v]

\* t >= t_dep[v], with t_dep in units of 1/DepDen step
\* (a slip: a departure index of 0 or less taken as no departure at all)
Departed_positiveonly(v, t) == deptime[v] > 0 /\ t * DepDen >= deptime[v]

Departed(v, t) == t * DepDen >= deptime[v]

\* (a slip: the charge power bounded by the maximum discharge power)
combinatorics_ch_negmax(m, v, t) ==
    IF Departed(v, t)
    THEN m.p_ev_pos[v][t] = 0
    ELSE m.p_ev_pos[v][t] <= m.x_ev[v][t] * pmax_neg[v]

combinatorics_ch(m, v, t) ==
    IF Departed(v, t)
    THEN m.p_ev_pos[v][t] = 0
    ELSE m.p_ev_pos[v][t] <= m.x_ev[v][t] * pmax_pos[v]

\* (a slip: x_ev for 1 - x_ev, discharge enabled by the charge selector)
combinatorics_ds_sameselector(m, v, t) ==
    IF Departed(v, t)
    THEN m.p_ev_neg[v][t] = 0
    ELSE m.p_ev_neg[v][t] <= m.x_ev[v][t] * pmax_neg[v]

combinatorics_ds(m, v, t) ==
    IF Departed(v, t)
    THEN m.p_ev_neg[v][t] = 0
    ELSE m.p_ev_neg[v][t] <= (1 - m.x_ev[v][t]) * pmax_neg[v]

\* p_ev_pos[v,t] / eff_ch[v] - p_ev_neg[v,t] * eff_ds[v], in units of 1/EffDen kW:
\* the efficiencies are ch_eff[v]/EffDen and ds_eff[v]/EffDen, and every
\* ch_eff[v] the model draws divides EffDen * EffDen, so the division is exact
\* (a slip: the discharge power divided by the efficiency, like the charge power)
GridPower_symmetric(m, v, t) ==
    (m.p_ev_pos[v][t] * EffDen * EffDen) \div ch_eff[v]
    - (m.p_ev_neg[v][t] * EffDen * EffDen) \div ds_eff[v]

GridPower(m, v, t) ==
    (m.p_ev_pos[v][t] * EffDen * EffDen) \div ch_eff[v]
    - m.p_ev_neg[v][t] * ds_eff[v]

RECURSIVE GridPowerSum(_, _, _)
GridPowerSum(m, t, S) ==
    IF S = {} THEN 0
    ELSE LET v == CHOOSE v \in S : TRUE
         IN GridPower(m, v, t) + GridPowerSum(m, t, S \ {v})

ccpower(m, t) == m.p_cc[t] = GridPowerSum(m, t, V)

\* (a slip: the tolerance never imposed on eps)
cluster_limit_violation_unbounded(m) == m.eps >= 0

\* eps <= P_CC_vio  (eps in units of 1/EffDen kW, the tolerance in kW)
cluster_limit_violation(m) == m.eps <= tolerance * EffDen

\* (a slip: the limit of the first step imposed at every step)
cluster_upper_limit_firststep(m, t) ==
    m.p_cc[opt_horizon[1]] <= m.eps + upperlimit[opt_horizon[1]] * EffDen

cluster_upper_limit(m, t) == m.p_cc[t] <= m.eps + upperlimit[t] * EffDen

\* (a slip: the violation slack left out of the lower limit)
cluster_lower_limit_noslack(m, t) == lowerlimit[t] * EffDen <= m.p_cc[t]

cluster_lower_limit(m, t) == -m.eps + lowerlimit[t] * EffDen <= m.p_cc[t]

\* (a slip: the deviation taken at the first step of the horizon)
individual_pos_deviation_firststep(m, v) == tarsoc[v] - m.s[v][0] <= m.y[v]

individual_pos_deviation(m, v) == tarsoc[v] - m.s[v][LastStep] <= m.y[v]

\* (a slip: the slack bounded by the target, as if the deviation were relative)
individual_neg_deviation_capped(m, v) ==
    /\ 0 - m.y[v] <= tarsoc[v] - m.s[v][LastStep]
    /\ m.y[v] <= tarsoc[v]

individual_neg_deviation(m, v) == -m.y[v] <= tarsoc[v] - m.s[v][LastStep]

\* rho_y * sum(y[v] * E[v] / 3600) + rho_eps * eps,
\* multiplied by SecPerHour * SocScale * EffDen
RECURSIVE DeviationSum(_, _)
DeviationSum(m, S) ==
    IF S = {} THEN 0
    ELSE LET v == CHOOSE v \in S : TRUE
         IN m.y[v] * bcap[v] * EffDen + DeviationSum(m, S \ {v})

\* (a slip: the violation term left out of the objective)
obj_rule_deviationonly(m) == rho_y * DeviationSum(m, V)

obj_rule(m) ==
    rho_y * DeviationSum(m, V) + rho_eps * m.eps * SecPerHour * SocScale

\* ------------------------------------------------------ variable domains
\* within=NonNegativeReals, Reals, Binary: the grids of the model
PowerGrid == 0..MaxP
NetGrid == (0 - MaxP)..MaxP
Binary == {0, 1}
SocGrid == 0..(2 * SocScale)
EpsGrid == 0..MaxEps
YGrid == 0..MaxY

\* --------------------------------------------------- the feasible region
\* The assignments that satisfy every constraint of the model, found by a
\* staged search: per vehicle and step, then per vehicle along the horizon,
\* then across the vehicles.  Every stage filters with the rules above.

\* the variables of one vehicle as an assignment of that vehicle alone
Wrap(v, b) ==
    [p_ev |-> v :> b.p_ev, p_ev_pos |-> v :> b.p_ev_pos,
     p_ev_neg |-> v :> b.p_ev_neg, x_ev |-> v :> b.x_ev, s |-> v :> b.s]

\* values of (p_ev, p_ev_pos, p_ev_neg, x_ev) at [v,t] allowed by
\* chargepowerlimit, combinatorics_ch and combinatorics_ds
Cells(v, t) ==
    {c \in [p_ev : NetGrid, p_ev_pos : PowerGrid, p_ev_neg : PowerGrid, x_ev : Binary] :
        LET m == [p_ev |-> v :> (t :> c.p_ev), p_ev_pos |-> v :> (t :> c.p_ev_pos),
                  p_ev_neg |-> v :> (t :> c.p_ev_neg), x_ev |-> v :> (t :> c.x_ev)]
        IN  /\ chargepowerlimit(m, v, t)
            /\ combinatorics_ch(m, v, t)
            /\ combinatorics_ds(m, v, t)}

\* the variables of vehicle v over the first i indices of the horizon
\* (s on all of them, the powers on all but the last)
RECURSIVE VehPaths(_, _)
VehPaths(v, i) ==
    LET t1 == opt_horizon[i] IN
    IF i = 1
    THEN {b \in {[p_ev |-> <<>>, p_ev_pos |-> <<>>, p_ev_neg |-> <<>>,
                  x_ev |-> <<>>, s |-> (t1 :> s1)] : s1 \in SocGrid} :
            t1 = 0 => initialsoc(Wrap(v, b), v)}
    ELSE LET t0 == opt_horizon[i - 1]
             cells == Cells(v, t0)
             paths == VehPaths(v, i - 1)
         IN
         {b \in {[p_ev |-> q.p_ev @@ (t0 :> c.p_ev),
                  p_ev_pos |-> q.p_ev_pos @@ (t0 :> c.p_ev_pos),
                  p_ev_neg |-> q.p_ev_neg @@ (t0 :> c.p_ev_neg),
                  x_ev |-> q.x_ev @@ (t0 :> c.x_ev),
                  s |-> q.s @@ (t1 :> s1)] :
                    q \in paths, c \in cells, s1 \in SocGrid} :
            LET m == Wrap(v, b)
            IN  /\ minimumsoc(m, v, t0)
                /\ maximumsoc(m, v, t0)
                /\ storageConservation(m, v, t0)
                /\ t1 = 0 => initialsoc(m, v)}

\* one path per vehicle of S
RECURSIVE PathChoices(_)
PathChoices(S) ==
    IF S = {} THEN {<<>>}
    ELSE LET v == CHOOSE v \in S : TRUE
             paths == VehPaths(v, Len(opt_horizon))
             rest == PathChoices(S \ {v})
         IN {f @@ (v :> b) : f \in rest, b \in paths}

\* the deviation slacks y over the vehicles of S that the two deviation rules
\* allow for the SOC trajectories sv
RECURSIVE SlackChoices(_, _)
SlackChoices(sv, S) ==
    IF S = {} THEN {<<>>}
    ELSE LET v == CHOOSE v \in S : TRUE
             ys == {y1 \in YGrid :
                        LET m == [s |-> sv, y |-> v :> y1]
                        IN  /\ individual_pos_deviation(m, v)
                            /\ individual_neg_deviation(m, v)}
             rest == SlackChoices(sv, S \ {v})
         IN {f @@ (v :> y1) : f \in rest, y1 \in ys}

\* the assignments made of one path per vehicle (f): the aggregate power
\* p_cc that ccpower gives them, every violation slack that the limit rules
\* allow, every deviation slack that the deviation rules allow
Assignments(f) ==
    LET mv == [p_ev |-> [v \in V |-> f[v].p_ev],
               p_ev_pos |-> [v \in V |-> f[v].p_ev_pos],
               p_ev_neg |-> [v \in V |-> f[v].p_ev_neg],
               x_ev |-> [v \in V |-> f[v].x_ev],
               s |-> [v \in V |-> f[v].s]]
        pcc == [t \in T |-> GridPowerSum(mv, t, V)]
        es == {e \in EpsGrid :
                LET m == [p_ev_pos |-> mv.p_ev_pos, p_ev_neg |-> mv.p_ev_neg,
                          p_cc |-> pcc, eps |-> e]
                IN  /\ cluster_limit_violation(m)
                    /\ \A t \in T : /\ ccpower(m, t)
                                    /\ cluster_upper_limit(m, t)
                                    /\ cluster_lower_limit(m, t)}
    IN IF es = {} THEN {}
       ELSE {[p_ev |-> mv.p_ev, p_ev_pos |-> mv.p_ev_pos, p_ev_neg |-> mv.p_ev_neg,
              x_ev |-> mv.x_ev, s |-> mv.s, p_cc |-> pcc, eps |-> e, y |-> ys] :
                e \in es, ys \in SlackChoices(mv.s, V)}

Feasible == UNION {Assignments(f) : f \in PathChoices(V)}

\* model.obj = Objective(rule=obj_rule, sense=minimize)
Optimal ==
    LET F == Feasible
        best == CHOOSE o \in {obj_rule(m) : m \in F} :
                    \A n \in F : o <= obj_rule(n)
    IN {m \in F : obj_rule(m) = best}

\* ------------------------------------------------------------ reschedule
\* the variables of a model into which no solution was loaded
NoValues == [loaded |-> FALSE]

\* what the caller has before reschedule returns
NoSchedule == <<>>

\* A rule reads a key that its mapping or variable does not have: pyomo
\* evaluates every rule when the Constraint is attached to the ConcreteModel,
\* so the KeyError leaves reschedule before solver.solve is reached.
BuildKeyError ==
    \/ \E v \in V :
        \/ 0 \notin Tp                                   \* initialsoc: s[v, 0]
        \/ v \notin DOMAIN inisoc
        \/ v \notin DOMAIN tarsoc                        \* individual_*_deviation
    \/ \E v \in V, t \in T :
        \/ v \notin DOMAIN minsoc                        \* minimumsoc
        \/ v \notin DOMAIN maxsoc                        \* maximumsoc
        \/ t + 1 \notin Tp                               \* storageConservation: s[v, t+1]
        \/ v \notin DOMAIN deptime                       \* combinatorics_ch / _ds
        \/ v \in DOMAIN deptime /\ ~Departed(v, t) /\ v \notin DOMAIN pmax_pos
        \/ v \in DOMAIN deptime /\ ~Departed(v, t) /\ v \notin DOMAIN pmax_neg
        \/ v \notin DOMAIN ch_eff                        \* ccpower
        \/ v \notin DOMAIN ds_eff
    \/ \E t \in T :
        \/ t \notin DOMAIN upperlimit                    \* cluster_upper_limit
        \/ t \notin DOMAIN lowerlimit                    \* cluster_lower_limit

\* (a slip: opt_horizon.pop() for opt_horizon[:-1], the caller's list shortened)
Build_popshorizon ==
    /\ pc = "call"
    /\ IF BuildKeyError
       THEN pc' = "raised" /\ exc' = "KeyError"
       ELSE pc' = "built" /\ exc' = exc
    /\ opt_horizon' = SubSeq(opt_horizon, 1, Len(opt_horizon) - 1)
    /\ UNCHANGED <<opt_step, upperlimit, lowerlimit, tolerance,
                   bcap, inisoc, tarsoc, minsoc, maxsoc, ch_eff, ds_eff,
                   pmax_pos, pmax_neg, deptime, rho_y, rho_eps,
                   model, result, solve_calls, p_schedule, s_schedule, plant, calls>>

\* lines 82-247: the model is constructed
Build ==
    /\ pc = "call"
    /\ IF BuildKeyError
       THEN pc' = "raised" /\ exc' = "KeyError"
       ELSE pc' = "built" /\ exc' = exc
    /\ UNCHANGED <<inputs, model, result, solve_calls, p_schedule, s_schedule, plant, calls>>

\* line 253: result = solver.solve(model).  The solver is an external MILP
\* backend: it loads an optimal assignment and reports "optimal"; or it proves
\* the model infeasible; or it ends otherwise without a solution ("error":
\* a time limit, a license or internal fault reported in the result); or the
\* call itself raises (the solver executable is not available).  In the last
\* three cases no value is loaded into the variables.
Solve ==
    /\ pc = "built"
    /\ solve_calls' = solve_calls + 1
    /\ \/ /\ \E m \in Optimal : model' = m @@ [loaded |-> TRUE]
          /\ result' = "optimal"
          /\ pc' = "solved" /\ exc' = exc
       \/ /\ Feasible = {}
          /\ result' = "infeasible"
          /\ model' = model
          /\ pc' = "solved" /\ exc' = exc
       \/ /\ result' = "error"
          /\ model' = model
          /\ pc' = "solved" /\ exc' = exc
       \/ /\ result' = result
          /\ model' = model
          /\ pc' = "raised" /\ exc' = "ApplicationError"
    /\ UNCHANGED <<inputs, p_schedule, s_schedule, plant, calls>>

\* model.p_ev[v, t]() and model.s[v, t](): the value of a variable, None
\* when no solution was loaded
\* (a slip: the net power clamped to charging)
p_ev_value_clamped(v, t) ==
    IF model.loaded
    THEN (IF model.p_ev[v][t] < 0 THEN 0 ELSE model.p_ev[v][t])
    ELSE None

p_ev_value(v, t) == IF model.loaded THEN model.p_ev[v][t] ELSE None

s_value(v, t) == IF model.loaded THEN model.s[v][t] ELSE None

\* lines 258-269: the results are saved and returned; result is not read.
\* Only the two mappings are returned: the model, a local of reschedule, is
\* out of reach of the caller from here on.
Extract ==
    /\ pc = "solved"
    /\ p_schedule' = [v \in V |-> [t \in {u \in Tp : u < LastStep} |-> p_ev_value(v, t)]]
    /\ s_schedule' = [v \in V |-> [t \in Tp |-> s_value(v, t)]]
    /\ model' = NoValues
    /\ pc' = "returned"
    /\ calls' = Append(calls, [arguments |-> inputs, result |-> result,
                               eps |-> IF model.loaded THEN model.eps ELSE None,
                               p_schedule |-> p_schedule', s_schedule |-> s_schedule'])
    /\ UNCHANGED <<inputs, exc, result, solve_calls, plant>>

\* line 269: return p_schedule, s_schedule
ReturnValue == <<p_schedule, s_schedule>>

\* ------------------------------------------------------------ the inputs
\* opt_horizon = list(range(k, k + h + 1))
Horizon(k, h) == [i \in 1..(h + 1) |-> k + i - 1]

Const(S, c) == [x \in S |-> c]

\* efficiencies in (0, 1] whose reciprocal is on the grid
EffChoices == {n \in 1..EffDen : (EffDen * EffDen) % n = 0}

\* (battery capacity in kWs, step in seconds): one kW moves the SOC by one
\* or two grid units per step
CapStepChoices == {<<900 * SocScale, 900>>, <<900 * SocScale, 1800>>,
                   <<1800 * SocScale, 1800>>}

\* departure: before the first step, after one step, after the horizon
DepChoices == {0, DepDen, (MaxH + 1) * DepDen}

Arguments(step, hor, up, low, tol, cap, ini, tar, mn, mx, ce, de, pp, pn, dep, ry, re) ==
    /\ opt_step = step /\ opt_horizon = hor
    /\ upperlimit = up /\ lowerlimit = low /\ tolerance = tol
    /\ bcap = cap /\ inisoc = ini /\ tarsoc = tar /\ minsoc = mn /\ maxsoc = mx
    /\ ch_eff = ce /\ ds_eff = de /\ pmax_pos = pp /\ pmax_neg = pn
    /\ deptime = dep /\ rho_y = ry /\ rho_eps = re

\* one vehicle, every combination of its battery, SOC, power and departure
\* data; limits that never bind
VehicleInputs ==
    \E h \in 1..MaxH, cs \in CapStepChoices,
       ini \in {1, 2}, tar \in {1, 3}, mn \in {0, 2}, mx \in {2, SocScale},
       pp \in {0, 1}, pn \in {0, 1}, dep \in DepChoices :
        LET S == {"EV1"}
            Tk == 0..(h - 1)
        IN Arguments(cs[2], Horizon(0, h), Const(Tk, 2 * MaxP), Const(Tk, 0 - 2 * MaxP), 0,
                     Const(S, cs[1]), Const(S, ini), Const(S, tar), Const(S, mn),
                     Const(S, mx), Const(S, EffDen), Const(S, EffDen),
                     Const(S, pp), Const(S, pn), Const(S, dep), 1, 1)

\* upper limits over h steps: one value for the first step, one for the rest
UpperChoices(h) ==
    {[t \in 0..(h - 1) |-> IF t = 0 THEN a ELSE b] : a \in {0, 1, 2}, b \in {0, 1, 2}}

\* one or two vehicles that want to charge, every combination of limits,
\* tolerance, efficiencies and penalty weights; the second vehicle has left
\* before the call or stays (two vehicles for one step; lossy chargers for
\* one step; a zero weight only for one step: every feasible assignment with
\* the least violation, or the least deviation, is optimal then)
ClusterInputs ==
    \E h \in 1..MaxH, S \in {{"EV1"}, {"EV1", "EV2"}} :
      /\ Cardinality(S) = 2 => h = 1
      /\ \E up \in UpperChoices(h), lo \in {0 - 2, 0}, tol \in {0, 1},
            ce \in EffChoices, de \in EffChoices,
            rho \in {<<1, 1>>, <<0, 1>>, <<1, 0>>, <<3, 1>>},
            dep2 \in {0 - DepDen, (MaxH + 1) * DepDen} :
          /\ S = {"EV1"} => dep2 > 0
          /\ rho[1] = 0 => (h = 1 /\ S = {"EV1"})
          /\ rho[2] = 0 => h = 1
          /\ h > 1 => (ce = EffDen /\ de = EffDen)
          /\ Arguments(1800, Horizon(0, h), up, Const(0..(h - 1), lo), tol,
                      [v \in S |-> IF v = "EV1" THEN 900 * SocScale ELSE 1800 * SocScale],
                      Const(S, 2), [v \in S |-> IF v = "EV1" THEN SocScale ELSE 3],
                      Const(S, 0), Const(S, SocScale),
                      [v \in S |-> IF v = "EV1" THEN ce ELSE EffDen],
                      [v \in S |-> IF v = "EV1" THEN de ELSE EffDen],
                       Const(S, 1), Const(S, 1),
                       [v \in S |-> IF v = "EV1" THEN (MaxH + 1) * DepDen ELSE dep2],
                       rho[1], rho[2])

\* the scenario of the demonstration (lines 278-325) for one vehicle: the
\* target is k steps of charging at maximum power above the initial SOC, the
\* vehicle stays until the end of the horizon or longer, tolerance 0, limits
\* that never bind; with and without discharge capability
ScenarioInputs ==
    \E h \in 1..MaxHA, k \in 1..MaxHA, pn \in {0, 1}, late \in {0, 1},
       rho \in {<<1, 1>>, <<0, 1>>} :
        LET S == {"EV1"}
            Tk == 0..(h - 1)
        IN /\ k <= h /\ 1 + k <= SocScale
           /\ rho[1] = 0 => h = 1
           /\ Arguments(900, Horizon(0, h), Const(Tk, 2 * MaxP), Const(Tk, 0 - 2 * MaxP), 0,
                        Const(S, 900 * SocScale), Const(S, 1), Const(S, 1 + k),
                        Const(S, 0), Const(S, SocScale), Const(S, EffDen), Const(S, EffDen),
                        Const(S, 1), Const(S, pn), Const(S, (h + late) * DepDen),
                        rho[1], rho[2])

\* the names of the per-vehicle mappings other than bcap
Attributes == {"inisoc", "tarsoc", "minsoc", "maxsoc", "ch_eff", "ds_eff",
               "pmax_pos", "pmax_neg", "deptime"}

\* malformed arguments: a vehicle without one attribute, limit mappings whose
\* keys are not the flow steps, a horizon that does not start at 0
FaultyInputs ==
    \E missing \in Attributes \cup {"none"}, dep \in {0, (MaxH + 1) * DepDen},
       k \in {0, 1}, upkeys \in {{0}, {}, {0, 1}}, lowkeys \in {{0}, {}, {0, 1}} :
        LET S == {"EV1", "EV2"}
            Map(a, c) == Const(IF a = missing THEN {"EV1"} ELSE S, c)
        IN Arguments(1800, Horizon(k, 1), Const(upkeys, 2), Const(lowkeys, 0 - 2), 0,
                     Const(S, 900 * SocScale), Map("inisoc", 2), Map("tarsoc", 2),
                     Map("minsoc", 0), Map("maxsoc", SocScale),
                     Map("ch_eff", EffDen), Map("ds_eff", EffDen),
                     Map("pmax_pos", 1), Map("pmax_neg", 1), Map("deptime", dep), 1, 1)

\* one vehicle under limits on the wrong side of zero (an upper limit below
\* zero, a lower limit above it) with and without the tolerance that covers
\* them; an initial SOC inside and outside [minsoc, maxsoc]
LimitInputs ==
    \E h \in 1..MaxH, up \in {0 - 1, 0}, lo \in {0, 1}, tol \in {0, 1},
       soc \in {<<0, 2, SocScale>>, <<2, 1, SocScale>>, <<0, 3, 2>>},
       pp \in {0, 1}, dep \in {0, (MaxH + 1) * DepDen} :
        LET S == {"EV1"}
            Tk == 0..(h - 1)
        IN Arguments(900, Horizon(0, h), Const(Tk, up), Const(Tk, lo), tol,
                     Const(S, 900 * SocScale), Const(S, soc[2]), Const(S, 3),
                     Const(S, soc[1]), Const(S, soc[3]), Const(S, EffDen), Const(S, EffDen),
                     Const(S, pp), Const(S, pp), Const(S, dep), 1, 1)

\* one vehicle over a horizon of consecutive step identifiers whose first one
\* is not 0 (it starts one before or one after 0), the limits keyed by the
\* steps of that horizon
ShiftedInputs ==
    \E h \in 1..MaxH, k \in {0 - 1, 1}, pp \in {0, 1} :
        LET S == {"EV1"}
            Tk == k..(k + h - 1)
        IN Arguments(900, Horizon(k, h), Const(Tk, 2 * MaxP), Const(Tk, 0 - 2 * MaxP), 0,
                     Const(S, 900 * SocScale), Const(S, 2), Const(S, 3),
                     Const(S, 0), Const(S, SocScale), Const(S, EffDen), Const(S, EffDen),
                     Const(S, pp), Const(S, pp), Const(S, (k + MaxH + 1) * DepDen), 1, 1)

Init ==
    /\ \/ VehicleInputs \/ ClusterInputs \/ FaultyInputs \/ ScenarioInputs
       \/ LimitInputs \/ ShiftedInputs
    /\ pc = "call"
    /\ exc = None
    /\ model = NoValues
    /\ result = None
    /\ solve_calls = 0
    /\ p_schedule = NoSchedule
    /\ s_schedule = NoSchedule
    /\ system = None
    /\ connected_ev = <<>>
    /\ cu_supply = <<>>
    /\ calls = <<>>

Next == Build \/ Solve \/ Extract

Spec == Init /\ [][Next]_vars

\* ------------------------------------------------------ charging_protocol
\* One cluster with two chargers.  system holds the cluster and the arguments
\* of the call: ts, t_delta (seconds), horizon (in steps of t_delta) and
\* penalty_parameters.
Chargers == {"CU1", "CU2"}

Vehicles == {"EV1", "EV2"}

Min(a, b) == IF a <= b THEN a ELSE b

\* line 39: cluster.number_of_connected_chargers(ts)
NumberOfConnectedChargers == Cardinality({c \in Chargers : connected_ev[c] # None})

\* only the first charger of the cluster is visited
ConnectedVehicles_firstcharger ==
    {connected_ev[cu] : cu \in {c \in {"CU1"} : connected_ev[c] # None}}

\* lines 48-52: the vehicles found at the chargers
ConnectedVehicles == {connected_ev[cu] : cu \in {c \in Chargers : connected_ev[c] # None}}

\* line 73: the charger a connected vehicle is found at
Location(v) == CHOOSE cu \in Chargers : connected_ev[cu] = v

\* lines 6-75: the horizon, the limits and the data of the connected vehicles
\* are collected; reschedule is called when a vehicle is connected.
Collect ==
    /\ pc = "protocol"
    /\ opt_horizon' = Horizon(0, system.horizon)
    /\ opt_step' = system.t_delta
    /\ IF NumberOfConnectedChargers > 0
       THEN /\ upperlimit' = [t \in 0..(system.horizon - 1) |-> system.upper_limit]
            /\ lowerlimit' = [t \in 0..(system.horizon - 1) |-> system.lower_limit]
            /\ tolerance' = system.violation_tolerance
            /\ rho_y' = system.penalty_parameters.rho_y
            /\ rho_eps' = system.penalty_parameters.rho_eps
       ELSE UNCHANGED <<upperlimit, lowerlimit, tolerance, rho_y, rho_eps>>
    /\ bcap' = [v \in ConnectedVehicles |-> system.evs[v].bCapacity]
    /\ deptime' = [v \in ConnectedVehicles |->
                      ((system.evs[v].t_dep_est - system.ts) * DepDen) \div system.t_delta]
    /\ inisoc' = [v \in ConnectedVehicles |-> system.evs[v].soc]
    /\ minsoc' = [v \in ConnectedVehicles |-> system.evs[v].minSoC]
    /\ maxsoc' = [v \in ConnectedVehicles |-> system.evs[v].maxSoC]
    /\ tarsoc' = [v \in ConnectedVehicles |-> system.chargers[Location(v)].schedule_soc]
    /\ ch_eff' = [v \in ConnectedVehicles |-> system.chargers[Location(v)].eff]
    /\ ds_eff' = [v \in ConnectedVehicles |-> system.chargers[Location(v)].eff]
    /\ pmax_pos' = [v \in ConnectedVehicles |->
                       Min(system.evs[v].p_max_ch, system.chargers[Location(v)].p_max_ch)]
    /\ pmax_neg' = [v \in ConnectedVehicles |->
                       Min(system.evs[v].p_max_ds, system.chargers[Location(v)].p_max_ds)]
    /\ pc' = IF ConnectedVehicles # {} THEN "call" ELSE "skipped"
    /\ UNCHANGED <<exc, model, result, solve_calls, p_schedule, s_schedule, plant, calls>>

\* the schedule entry of the last flow step in place of the first
SuppliedPower_laststep(cu) == p_schedule[connected_ev[cu]][LastStep - 1]

\* line 84: p_schedule[ev_id][0], the power handed to cu.supply
SuppliedPower(cu) == p_schedule[connected_ev[cu]][0]

\* lines 79-84: after reschedule has returned, every charger with a connected
\* vehicle is supplied with the first entry of the vehicle's schedule.
Apply ==
    /\ pc = "returned"
    /\ cu_supply' = [cu \in Chargers |->
                        IF connected_ev[cu] # None
                        THEN Append(cu_supply[cu], SuppliedPower(cu))
                        ELSE cu_supply[cu]]
    /\ pc' = "applied"
    /\ UNCHANGED <<inputs, exc, model, result, solve_calls, p_schedule, s_schedule,
                   system, connected_ev, calls>>

\* each vehicle is at one charger at most
Connections ==
    {c \in [Chargers -> Vehicles \cup {None}] :
        \A a, b \in Chargers : (a # b /\ c[a] # None) => c[a] # c[b]}

ProtoInit ==
    /\ \E c \in Connections, h \in 1..MaxH, k \in {0, 1},
          soc \in {1, 2}, mn \in {0, 2}, q \in {1, 2},
          d \in {1, DepDen, (MaxH + 1) * DepDen}, up \in {1, 2 * MaxP}, tol \in {0, 1},
          StepSeconds \in {1800} :
        /\ Cardinality({cu \in Chargers : c[cu] # None}) = 2 => h = 1
        /\ connected_ev = c
        /\ system =
            [ts |-> k * StepSeconds, t_delta |-> StepSeconds, horizon |-> h,
             upper_limit |-> up, lower_limit |-> 0 - 2 * MaxP,
             violation_tolerance |-> tol,
             penalty_parameters |-> [rho_y |-> 1, rho_eps |-> 1],
             chargers |-> [cu \in Chargers |->
                 [eff |-> EffDen, p_max_ch |-> q, p_max_ds |-> q,
                  schedule_soc |-> IF cu = "CU1" THEN SocScale ELSE 3]],
             evs |-> [v \in Vehicles |->
                 [bCapacity |-> IF v = "EV1" THEN 900 * SocScale ELSE 1800 * SocScale,
                  t_dep_est |-> k * StepSeconds + d * (StepSeconds \div DepDen),
                  soc |-> soc, minSoC |-> mn, maxSoC |-> SocScale,
                  p_max_ch |-> 1, p_max_ds |-> IF v = "EV1" THEN 1 ELSE 2]]]
    /\ opt_step = 0 /\ opt_horizon = <<>>
    /\ upperlimit = <<>> /\ lowerlimit = <<>> /\ tolerance = 0
    /\ bcap = <<>> /\ inisoc = <<>> /\ tarsoc = <<>> /\ minsoc = <<>> /\ maxsoc = <<>>
    /\ ch_eff = <<>> /\ ds_eff = <<>> /\ pmax_pos = <<>> /\ pmax_neg = <<>>
    /\ deptime = <<>> /\ rho_y = 0 /\ rho_eps = 0
    /\ pc = "protocol"
    /\ exc = None
    /\ model = NoValues
    /\ result = None
    /\ solve_calls = 0
    /\ p_schedule = NoSchedule
    /\ s_schedule = NoSchedule
    /\ cu_supply = [cu \in Chargers |-> <<>>]
    /\ calls = <<>>

ProtoNext == Collect \/ Build \/ Solve \/ Extract \/ Apply

ProtoSpec == ProtoInit /\ [][ProtoNext]_vars

\* ------------------------------------------ one caller, several calls
\* penalty weights (rho_y, rho_eps) a caller tries on the same data
Weights == {<<3, 1>>, <<2, 1>>, <<4, 2>>}

\* a caller that has its answer calls reschedule again with the same data and
\* penalty weights of its choice
Again ==
    /\ pc = "returned"
    /\ Len(calls) < MaxCalls
    /\ \E w \in Weights : rho_y' = w[1] /\ rho_eps' = w[2]
    /\ pc' = "call"
    /\ exc' = None
    /\ result' = None
    /\ model' = NoValues
    /\ p_schedule' = NoSchedule
    /\ s_schedule' = NoSchedule
    /\ UNCHANGED <<opt_step, opt_horizon, upperlimit, lowerlimit, tolerance,
                   bcap, inisoc, tarsoc, minsoc, maxsoc, ch_eff, ds_eff,
                   pmax_pos, pmax_neg, deptime, solve_calls, plant, calls>>

\* one or two vehicles that want to charge under an upper limit of 0 or 1 kW,
\* with a tolerance of 1 kW
CallsInit ==
    /\ \E h \in 1..(MaxH - 1), S \in {{"EV1"}, {"EV1", "EV2"}}, up \in {0, 1}, tol \in {1},
          w \in Weights :
        /\ Cardinality(S) = 2 => h = 1
        /\ Arguments(1800, Horizon(0, h), Const(0..(h - 1), up), Const(0..(h - 1), 0 - 2), tol,
                     [v \in S |-> IF v = "EV1" THEN 900 * SocScale ELSE 1800 * SocScale],
                     Const(S, 2), [v \in S |-> IF v = "EV1" THEN SocScale ELSE 3],
                     Const(S, 0), Const(S, SocScale), Const(S, EffDen), Const(S, EffDen),
                     Const(S, 1), Const(S, 1), Const(S, (MaxH + 1) * DepDen), w[1], w[2])
    /\ pc = "call"
    /\ exc = None
    /\ model = NoValues
    /\ result = None
    /\ solve_calls = 0
    /\ p_schedule = NoSchedule
    /\ s_schedule = NoSchedule
    /\ system = None
    /\ connected_ev = <<>>
    /\ cu_supply = <<>>
    /\ calls = <<>>

CallsNext == Build \/ Solve \/ Extract \/ Again

CallsSpec == CallsInit /\ [][CallsNext]_vars

\* =============================================================== claims
\* reschedule has returned schedules read from a solved model
ReturnedSolved == pc = "returned" /\ result = "optimal"

\* C1: in every returned solved schedule the SOC of every vehicle at every
\* non-terminal step lies within [minSOC, maxSOC] of the vehicle.
C1_SocWithinBounds ==
    ReturnedSolved =>
        \A v \in V : \A t \in T :
            minsoc[v] <= s_schedule[v][t] /\ s_schedule[v][t] <= maxsoc[v]

\* the SOC was raised up to a maximum below 1.0 at a non-terminal step
C1_Witness ==
    /\ ReturnedSolved
    /\ \E v \in V : \E t \in T :
        /\ maxsoc[v] < SocScale
        /\ s_schedule[v][t] = maxsoc[v]
        /\ s_schedule[v][0] < maxsoc[v]

\* C2: conservation on the returned schedules: for every vehicle and
\* non-terminal step, soc[t+1] = soc[t] + netPower[t] / capacity * stepSeconds.
C2_Conservation ==
    ReturnedSolved =>
        \A v \in V : \A t \in T :
            s_schedule[v][t + 1] * bcap[v] =
                s_schedule[v][t] * bcap[v] + p_schedule[v][t] * opt_step * SocScale

\* a returned schedule that charges in one step and discharges in another
C2_Witness ==
    /\ ReturnedSolved
    /\ \E v \in V : \E t, u \in T : p_schedule[v][t] > 0 /\ p_schedule[v][u] < 0

\* C3: in every returned solved schedule the power of a vehicle is 0 at every
\* step at or after its departure.
C3_ZeroAfterDeparture ==
    ReturnedSolved =>
        \A v \in V : \A t \in T :
            t * DepDen >= deptime[v] => p_schedule[v][t] = 0

\* a vehicle that departs inside the horizon and is given power before it leaves
C3_Witness ==
    /\ ReturnedSolved
    /\ \E v \in V : \E t, u \in T :
        /\ t * DepDen < deptime[v] /\ p_schedule[v][t] # 0
        /\ u * DepDen >= deptime[v] /\ p_schedule[v][u] = 0

\* C4: in every solved model the one violation slack satisfies
\* 0 <= eps <= tolerance, and at every step
\* lowerLimit(t) - eps <= aggregatePower(t) <= upperLimit(t) + eps.
C4_SoftLimits ==
    model.loaded =>
        /\ 0 <= model.eps /\ model.eps <= tolerance * EffDen
        /\ \A t \in T :
            /\ lowerlimit[t] * EffDen - model.eps <= model.p_cc[t]
            /\ model.p_cc[t] <= upperlimit[t] * EffDen + model.eps
        /\ tolerance = 0 =>
            \A t \in T : /\ lowerlimit[t] * EffDen <= model.p_cc[t]
                         /\ model.p_cc[t] <= upperlimit[t] * EffDen

\* a solved model that uses the slack: the aggregate power exceeds the upper
\* limit of a step
C4_Witness ==
    /\ model.loaded
    /\ model.eps > 0
    /\ \E t \in T : model.p_cc[t] > upperlimit[t] * EffDen

\* C5: in every feasible assignment, at every step before the departure of a
\* vehicle at most one of its charge and discharge power is nonzero, the
\* charge power is at most maxChargePower when the selector is 1, and the
\* discharge power at most maxDischargePower when it is 0.
C5_Exclusivity ==
    pc = "built" =>
        \A m \in Feasible : \A v \in V : \A t \in T :
            t * DepDen < deptime[v] =>
                /\ ~(m.p_ev_pos[v][t] > 0 /\ m.p_ev_neg[v][t] > 0)
                /\ m.x_ev[v][t] = 1 => m.p_ev_pos[v][t] <= pmax_pos[v]
                /\ m.x_ev[v][t] = 0 => m.p_ev_neg[v][t] <= pmax_neg[v]

\* a solved model in which a vehicle charges in one step and discharges in
\* another, both before its departure
C5_Witness ==
    /\ model.loaded
    /\ \E v \in V : \E t, u \in T :
        /\ t * DepDen < deptime[v] /\ u * DepDen < deptime[v]
        /\ model.p_ev_pos[v][t] > 0 /\ model.x_ev[v][t] = 1
        /\ model.p_ev_neg[v][u] > 0 /\ model.x_ev[v][u] = 0

\* C6: in every returned solved schedule the SOC at step 0 is the initial SOC.
C6_InitialSoc ==
    ReturnedSolved => \A v \in V : s_schedule[v][0] = inisoc[v]

\* a returned trajectory that leaves the initial SOC
C6_Witness ==
    /\ ReturnedSolved
    /\ \E v \in V : s_schedule[v][LastStep] # inisoc[v]

\* rho_y * sum_v(deviationSlack(v) * capacity(v) / 3600) + rho_eps * violationSlack
\* of an assignment, times 3600 * SocScale * EffDen
RECURSIVE WeightedDeviation(_, _)
WeightedDeviation(m, S) ==
    IF S = {} THEN 0
    ELSE LET v == CHOOSE v \in S : TRUE
         IN m.y[v] * bcap[v] * EffDen + WeightedDeviation(m, S \ {v})

Cost(m) == rho_y * WeightedDeviation(m, V) + rho_eps * m.eps * 3600 * SocScale

\* C7: no assignment that satisfies the constraints costs strictly less than
\* the assignment from which the returned schedules are read.
C7_Optimal ==
    (pc = "solved" /\ result = "optimal") =>
        LET least == Cost(model) IN \A n \in Feasible : least <= Cost(n)

\* the returned schedules come from an assignment that pays for both a
\* violation and a deviation, while a cheaper-looking feasible one exists
C7_Witness ==
    /\ pc = "solved" /\ result = "optimal"
    /\ rho_y > 0 /\ rho_eps > 0
    /\ model.eps > 0
    /\ \E v \in V : model.y[v] > 0

\* C8: when the solver ends without success (infeasible, or any other
\* non-success termination), reschedule raises and never returns p_schedule /
\* s_schedule mappings.
C8_FailureSurfaces ==
    result \in {"infeasible", "error"} =>
        /\ pc # "returned"
        /\ p_schedule = NoSchedule /\ s_schedule = NoSchedule

\* a vehicle (a key of bcap) lacks one of the per-vehicle attributes
MissingAttribute ==
    \E v \in V :
        \/ v \notin DOMAIN inisoc \/ v \notin DOMAIN tarsoc
        \/ v \notin DOMAIN minsoc \/ v \notin DOMAIN maxsoc
        \/ v \notin DOMAIN ch_eff \/ v \notin DOMAIN ds_eff
        \/ v \notin DOMAIN pmax_pos \/ v \notin DOMAIN pmax_neg
        \/ v \notin DOMAIN deptime

\* the keys of a limit mapping are not exactly the first H horizon indices
LimitKeysMismatch == DOMAIN upperlimit # T \/ DOMAIN lowerlimit # T

\* C9: arguments with a missing vehicle attribute or with limit keys other
\* than T make the construction fail, and solver.solve is never called.
C9_ValidatedBeforeSolve ==
    (MissingAttribute \/ LimitKeysMismatch) =>
        /\ solve_calls = 0
        /\ pc \in {"call", "raised"}

\* C10: in charging_protocol, when the rescheduling call did not succeed
\* (infeasible model or solver failure), cu.supply is called for no charger
\* and the control cycle ends with the failure raised to the caller.
C10_NoSupplyOnFailure ==
    result \in {"infeasible", "error"} =>
        /\ \A cu \in Chargers : cu_supply[cu] = <<>>
        /\ pc # "applied"

\* C11: in one control cycle of charging_protocol the optimizer is invoked at
\* most once; cu.supply is called at most once per charger and only when
\* reschedule has returned; after a successful solve every charger with a
\* connected vehicle has been supplied exactly once with p_schedule[v][0] of
\* its vehicle and every charger without a vehicle not at all.
C11_RecedingHorizon ==
    /\ solve_calls <= 1
    /\ \A cu \in Chargers : Len(cu_supply[cu]) <= 1
    /\ pc # "applied" => \A cu \in Chargers : cu_supply[cu] = <<>>
    /\ (pc = "applied" /\ result = "optimal") =>
          \A cu \in Chargers :
              IF connected_ev[cu] # None
              THEN cu_supply[cu] = <<p_schedule[connected_ev[cu]][0]>>
              ELSE cu_supply[cu] = <<>>

\* a cycle over two steps with one charger free, in which the schedule of the
\* connected vehicle differs between the first and the second step
C11_Witness ==
    /\ pc = "applied" /\ result = "optimal"
    /\ \E cu, free \in Chargers :
        /\ connected_ev[free] = None /\ cu_supply[free] = <<>>
        /\ connected_ev[cu] # None
        /\ 1 \in DOMAIN p_schedule[connected_ev[cu]]
        /\ p_schedule[connected_ev[cu]][1] # p_schedule[connected_ev[cu]][0]
        /\ cu_supply[cu] = <<p_schedule[connected_ev[cu]][0]>>

\* the per-vehicle mappings handed to reschedule
AttributeMaps == <<bcap, inisoc, tarsoc, minsoc, maxsoc, ch_eff, ds_eff,
                   pmax_pos, pmax_neg, deptime>>

\* C12: once charging_protocol has collected its data, every per-vehicle
\* mapping has as keys exactly the vehicles connected to a charger; a cluster
\* without a connected charger contributes no limits; and when no vehicle is
\* connected the optimizer is not invoked.
C12_ConnectedVehiclesOnly ==
    pc # "protocol" =>
        LET connected == {v \in Vehicles : \E cu \in Chargers : connected_ev[cu] = v}
        IN /\ \A i \in DOMAIN AttributeMaps : DOMAIN AttributeMaps[i] = connected
           /\ connected = {} =>
                 /\ pc = "skipped" /\ solve_calls = 0
                 /\ upperlimit = <<>> /\ lowerlimit = <<>>
           /\ connected # {} => pc # "skipped"

\* reschedule has been called for a cluster with one vehicle connected and one
\* charger free
C12_Witness ==
    /\ pc = "solved" /\ solve_calls = 1
    /\ \E cu, free \in Chargers :
        /\ connected_ev[free] = None
        /\ connected_ev[cu] = "EV2"
        /\ DOMAIN bcap = {"EV2"} /\ DOMAIN deptime = {"EV2"}

\* the horizon length H
H == Cardinality(T)

\* the first step identifier of the horizon
FirstStep == opt_horizon[1]

\* the case of scenario A: one vehicle, tolerance 0, limits that cannot bind,
\* departure at or after step H, and a target above the initial SOC that k <= H
\* steps of charging at maximum power reach exactly, inside [minSOC, maxSOC]
ScenarioA ==
    /\ Cardinality(V) = 1
    /\ opt_horizon = Horizon(0, H)
    /\ \A i \in DOMAIN AttributeMaps : DOMAIN AttributeMaps[i] = V
    /\ DOMAIN upperlimit = T /\ DOMAIN lowerlimit = T
    /\ tolerance = 0
    /\ \A v \in V :
        /\ \A t \in T : /\ upperlimit[t] * ch_eff[v] >= pmax_pos[v] * EffDen
                        /\ lowerlimit[t] * EffDen <= 0 - pmax_neg[v] * ds_eff[v]
        /\ deptime[v] >= H * DepDen
        /\ tarsoc[v] > inisoc[v]
        /\ minsoc[v] <= inisoc[v] /\ tarsoc[v] <= maxsoc[v]
        /\ \E k \in 1..H :
            (tarsoc[v] - inisoc[v]) * bcap[v] = k * pmax_pos[v] * opt_step * SocScale

\* the solve has succeeded and its values are about to be returned
Solved == pc = "solved" /\ result = "optimal"

\* C13 as stated: in scenario A every schedule reschedule can return ends at
\* the target SOC exactly, has a monotonically nondecreasing SOC over 0..H and
\* a violation slack of 0.
C13_ScenarioA_Stated ==
    (Solved /\ ScenarioA) =>
        \A v \in V :
            /\ model.s[v][LastStep] = tarsoc[v]
            /\ \A t \in T : model.s[v][t] <= model.s[v][t + 1]
            /\ model.eps = 0

\* C13 amended: in scenario A with rho_y > 0 every schedule reschedule can
\* return ends at the target SOC exactly with a violation slack of 0; its SOC
\* is monotonically nondecreasing when the vehicle cannot discharge or needs
\* every step of the horizon (k = H).
C13_ScenarioA ==
    (Solved /\ ScenarioA /\ rho_y > 0) =>
        \A v \in V :
            /\ model.s[v][LastStep] = tarsoc[v]
            /\ model.eps = 0
            /\ (pmax_neg[v] = 0
                  \/ (tarsoc[v] - inisoc[v]) * bcap[v] = H * pmax_pos[v] * opt_step * SocScale)
               => \A t \in T : model.s[v][t] <= model.s[v][t + 1]

\* a solve of scenario A that reaches a target one charging step away at the
\* end of a horizon of three steps, for a vehicle that cannot discharge
C13_Witness ==
    /\ Solved /\ ScenarioA /\ rho_y > 0
    /\ H = 3
    /\ \A v \in V :
        /\ pmax_neg[v] = 0
        /\ model.s[v][LastStep] = tarsoc[v]
        /\ model.s[v][1] = inisoc[v]

\* the arguments of a recorded call, by position in inputs
ArgTolerance(c) == c.arguments[5]

ArgRhoY(c) == c.arguments[16]

ArgRhoEps(c) == c.arguments[17]

\* two recorded calls were made with the same data, penalty weights aside
SameData(c, d) == \A k \in 1..15 : c.arguments[k] = d.arguments[k]

\* two solved calls on the same data with tolerance > 0 and positive rho_y
ComparableCalls(c, d) ==
    /\ c.result = "optimal" /\ d.result = "optimal"
    /\ SameData(c, d)
    /\ ArgTolerance(c) > 0
    /\ ArgRhoY(c) > 0 /\ ArgRhoY(d) > 0

\* C14 as stated: of two solves on the same data with different weight pairs
\* and rho_eps1/rho_y1 <= rho_eps2/rho_y2, the second chooses a violation
\* slack not greater than the first.
C14_Monotone_Stated ==
    \A i, j \in DOMAIN calls :
        (/\ ComparableCalls(calls[i], calls[j])
         /\ <<ArgRhoY(calls[i]), ArgRhoEps(calls[i])>> # <<ArgRhoY(calls[j]), ArgRhoEps(calls[j])>>
         /\ ArgRhoEps(calls[i]) * ArgRhoY(calls[j]) <= ArgRhoEps(calls[j]) * ArgRhoY(calls[i]))
        => calls[j].eps <= calls[i].eps

\* C14 amended: of two solves on the same data with tolerance > 0, positive
\* rho_y and rho_eps1/rho_y1 < rho_eps2/rho_y2 (strictly), the second chooses a
\* violation slack not greater than the first.
C14_Monotone ==
    \A i, j \in DOMAIN calls :
        (/\ ComparableCalls(calls[i], calls[j])
         /\ ArgRhoEps(calls[i]) * ArgRhoY(calls[j]) < ArgRhoEps(calls[j]) * ArgRhoY(calls[i]))
        => calls[j].eps <= calls[i].eps

\* two solves on the same data of which the one with the strictly larger ratio
\* chose a strictly smaller violation slack
C14_Witness ==
    \E i, j \in DOMAIN calls :
        /\ ComparableCalls(calls[i], calls[j])
        /\ ArgRhoEps(calls[i]) * ArgRhoY(calls[j]) < ArgRhoEps(calls[j]) * ArgRhoY(calls[i])
        /\ calls[j].eps < calls[i].eps

\* C15: in every returned solved schedule a vehicle whose departure index is
\* <= 0 has power 0 at every step 0..H-1 and its initial SOC at every step
\* 0..H, whatever the other vehicles, the limits and its target SOC are.
C15_DepartedIdle ==
    ReturnedSolved =>
        \A v \in V :
            deptime[v] <= 0 =>
                /\ \A t \in T : p_schedule[v][t] = 0
                /\ \A t \in Tp : s_schedule[v][t] = inisoc[v]

\* a returned schedule for two vehicles: one has left before the call, short
\* of its target, and stays idle while the other is charged
C15_Witness ==
    /\ ReturnedSolved
    /\ \E v, w \in V :
        /\ deptime[v] < 0 /\ tarsoc[v] # inisoc[v]
        /\ \A t \in Tp : s_schedule[v][t] = inisoc[v]
        /\ deptime[w] > 0 /\ \E t \in T : p_schedule[w][t] > 0

\* C17: whenever reschedule returns after a successful solve, p_schedule and
\* s_schedule have exactly the vehicles of the vehicle set as keys,
\* p_schedule[v] has exactly the first H horizon indices (0..H-1 for a horizon
\* 0..H) and s_schedule[v] exactly all H+1 horizon indices as keys, and every
\* entry is the value the solver gave to p_ev[v, t] and s[v, t], unchanged.
C17_ResultShape ==
    [][(pc' = "returned" /\ result' = "optimal") =>
          /\ DOMAIN p_schedule' = V /\ DOMAIN s_schedule' = V
          /\ \A v \in V :
              /\ DOMAIN p_schedule'[v] = {FirstStep + i : i \in 0..(H - 1)}
              /\ DOMAIN s_schedule'[v] = {FirstStep + i : i \in 0..H}
              /\ \A t \in DOMAIN p_schedule'[v] : p_schedule'[v][t] = model.p_ev[v][t]
              /\ \A t \in DOMAIN s_schedule'[v] : s_schedule'[v][t] = model.s[v][t]]_vars

\* schedules returned for a horizon of two steps in which the vehicle is
\* discharged at one step
C17_Witness ==
    /\ ReturnedSolved
    /\ H = 2
    /\ \E v \in V : \E t \in T : p_schedule[v][t] < 0

\* the value of eps in the solve of the call that has just returned
ChosenSlack == calls[Len(calls)].eps

\* C18 as stated: the value of the violation slack chosen by the solve is
\* returned to the caller of reschedule together with the two schedules.
C18_SlackReturned_Stated ==
    ReturnedSolved =>
        /\ Len(ReturnValue) >= 3
        /\ ReturnValue[3] = ChosenSlack

\* the power drawn from the cluster for vehicle v at step t, computed from the
\* returned net power (in units of 1/EffDen kW)
ReturnedGridPower(v, t) ==
    LET p == ReturnValue[1][v][t]
    IN IF p >= 0 THEN (p * EffDen * EffDen) \div ch_eff[v] ELSE p * ds_eff[v]

RECURSIVE ReturnedAggregate(_, _)
ReturnedAggregate(t, S) ==
    IF S = {} THEN 0
    ELSE LET v == CHOOSE v \in S : TRUE
         IN ReturnedGridPower(v, t) + ReturnedAggregate(t, S \ {v})

\* C18 amended: reschedule returns the two schedules only, the violation slack
\* is not part of the return value; the aggregate-limit property can be
\* evaluated on the returned power schedule against the tolerance: at every
\* step the aggregate power lies within [lowerLimit - tolerance,
\* upperLimit + tolerance].
C18_SlackNotReturned ==
    ReturnedSolved =>
        /\ Len(ReturnValue) = 2
        /\ \A t \in T :
            /\ ReturnedAggregate(t, V) <= (upperlimit[t] + tolerance) * EffDen
            /\ ReturnedAggregate(t, V) >= (lowerlimit[t] - tolerance) * EffDen

\* a returned schedule of a solve that chose a positive violation slack and
\* whose aggregate power exceeds the upper limit at some step
C18_Witness ==
    /\ ReturnedSolved
    /\ ChosenSlack > 0
    /\ \E t \in T : ReturnedAggregate(t, V) > upperlimit[t] * EffDen

\* C19: no step of a call of reschedule changes the horizon list, the limit
\* mappings or a per-vehicle mapping passed in, and when the call ends, by
\* returning or by raising, nothing of the model it built is left.
C19_NoSideEffects ==
    [][(pc \in {"call", "built", "solved"}) =>
          (inputs' = inputs /\ (pc' \in {"returned", "raised"} => model' = NoValues))]_vars

\* a call has returned the schedules of a successful solve for the arguments
\* it was given, and the values of its model are gone
C19_Witness ==
    /\ ReturnedSolved
    /\ model = NoValues
    /\ calls[Len(calls)].arguments = inputs
    /\ Len(opt_horizon) = MaxH + 1

\* The charge-only fast path of C20: the model of reschedule without the
\* binary selector.  At [v,t] the exclusivity rules are replaced by
\* p_ev_pos <= pmax_pos and p_ev_neg = 0 before departure (both powers 0 from
\* departure on); every other rule is the one of reschedule.  x_ev is carried
\* as the constant 0 and dropped by Projection.
FastCells(v, t) ==
    {c \in [p_ev : NetGrid, p_ev_pos : PowerGrid, p_ev_neg : PowerGrid, x_ev : {0}] :
        LET m == [p_ev |-> v :> (t :> c.p_ev), p_ev_pos |-> v :> (t :> c.p_ev_pos),
                  p_ev_neg |-> v :> (t :> c.p_ev_neg)]
        IN  /\ chargepowerlimit(m, v, t)
            /\ c.p_ev_neg = 0
            /\ IF t * DepDen >= deptime[v]
               THEN c.p_ev_pos = 0
               ELSE c.p_ev_pos <= pmax_pos[v]}

RECURSIVE FastVehPaths(_, _)
FastVehPaths(v, i) ==
    LET t1 == opt_horizon[i] IN
    IF i = 1
    THEN {b \in {[p_ev |-> <<>>, p_ev_pos |-> <<>>, p_ev_neg |-> <<>>,
                  x_ev |-> <<>>, s |-> (t1 :> s1)] : s1 \in SocGrid} :
            t1 = 0 => initialsoc(Wrap(v, b), v)}
    ELSE LET t0 == opt_horizon[i - 1]
             cells == FastCells(v, t0)
             paths == FastVehPaths(v, i - 1)
         IN
         {b \in {[p_ev |-> q.p_ev @@ (t0 :> c.p_ev),
                  p_ev_pos |-> q.p_ev_pos @@ (t0 :> c.p_ev_pos),
                  p_ev_neg |-> q.p_ev_neg @@ (t0 :> c.p_ev_neg),
                  x_ev |-> q.x_ev @@ (t0 :> c.x_ev),
                  s |-> q.s @@ (t1 :> s1)] :
                    q \in paths, c \in cells, s1 \in SocGrid} :
            LET m == Wrap(v, b)
            IN  /\ minimumsoc(m, v, t0)
                /\ maximumsoc(m, v, t0)
                /\ storageConservation(m, v, t0)
                /\ t1 = 0 => initialsoc(m, v)}

RECURSIVE FastPathChoices(_)
FastPathChoices(S) ==
    IF S = {} THEN {<<>>}
    ELSE LET v == CHOOSE v \in S : TRUE
             paths == FastVehPaths(v, Len(opt_horizon))
             rest == FastPathChoices(S \ {v})
         IN {f @@ (v :> b) : f \in rest, b \in paths}

FastFeasible == UNION {Assignments(f) : f \in FastPathChoices(V)}

\* the (powerSchedule, socTrajectory, violationSlack, deviationSlack) of an
\* assignment
Projection(m) == [p_ev |-> m.p_ev, s |-> m.s, eps |-> m.eps, y |-> m.y]

\* the least value of the objective over a non-empty set of assignments
LeastCost(F) == CHOOSE o \in {Cost(m) : m \in F} : \A n \in F : o <= Cost(n)

\* every vehicle of the built model is charge-only
ChargeOnly ==
    /\ pc = "built"
    /\ \A v \in V : v \in DOMAIN pmax_pos /\ v \in DOMAIN pmax_neg /\ pmax_neg[v] = 0

\* C20: when the maximum discharge power of every vehicle is 0, the model
\* without the binary selector has exactly the feasible (powerSchedule,
\* socTrajectory, violationSlack, deviationSlack) tuples of the mixed-integer
\* model of reschedule, and the same optimal objective value.
C20_ChargeOnlyFastPath ==
    ChargeOnly =>
        LET F == Feasible
            G == FastFeasible
        IN /\ {Projection(m) : m \in F} = {Projection(m) : m \in G}
           /\ (F = {}) = (G = {})
           /\ F # {} => LeastCost(F) = LeastCost(G)

\* a built charge-only model over two steps or more that has a feasible
\* assignment which charges
C20_Witness ==
    /\ ChargeOnly
    /\ H >= 2
    /\ \E m \in Feasible : \E v \in V : \E t \in T : m.p_ev[v][t] > 0

\* sum of f[v] over the vehicles of S
RECURSIVE SumOver(_, _)
SumOver(f, S) ==
    IF S = {} THEN 0
    ELSE LET v == CHOOSE v \in S : TRUE IN f[v] + SumOver(f, S \ {v})

\* grid-side draw of the charge power and grid-side injection of the discharge
\* power of v at t in the solved model (units of 1/EffDen kW)
GridDraw(v, t) == (model.p_ev_pos[v][t] * EffDen * EffDen) \div ch_eff[v]

GridInjection(v, t) == model.p_ev_neg[v][t] * ds_eff[v]

\* C21: in every solved model, at every step, the aggregate power is the sum
\* over the vehicles of chargePower / chargeEff - dischargePower * dischargeEff;
\* the grid-side draw of a vehicle is at least its charge power, its grid-side
\* injection at most its discharge power, and the aggregate power at least
\* the sum of the net powers.
C21_EfficiencyAsymmetry ==
    Solved =>
        \A t \in T :
            /\ model.p_cc[t] =
                  SumOver([v \in V |-> GridDraw(v, t) - GridInjection(v, t)], V)
            /\ \A v \in V :
                /\ GridDraw(v, t) >= model.p_ev_pos[v][t] * EffDen
                /\ GridInjection(v, t) <= model.p_ev_neg[v][t] * EffDen
            /\ model.p_cc[t] >= SumOver([v \in V |-> model.p_ev[v][t] * EffDen], V)

\* a solved model in which a vehicle discharges through a lossy charger, so
\* that the grid receives less than the battery gives
C21_Witness ==
    /\ Solved
    /\ \E v \in V : \E t \in T :
        /\ model.p_ev_neg[v][t] > 0
        /\ ds_eff[v] < EffDen
        /\ GridInjection(v, t) < model.p_ev_neg[v][t] * EffDen
        /\ model.p_cc[t] > SumOver([w \in V |-> model.p_ev[w][t] * EffDen], V)

\* the last step with a power variable
LastFlowStep == SetMax(T)

\* the limits leave room for v charging or discharging at full power alone
LimitsAllow(v) ==
    \A t \in T :
        /\ pmax_pos[v] * EffDen <= upperlimit[t] * ch_eff[v]
        /\ lowerlimit[t] * EffDen <= 0 - pmax_neg[v] * ds_eff[v]

\* one step at full power moves the SOC of v by exactly one grid unit
UnitStep(p, v) == p[v] * opt_step * SocScale = bcap[v]

\* v, alone in the cluster, starts at its maximum SOC with a target one
\* unit above it, and can charge in the last step
OvershootCase(v) ==
    /\ V = {v} /\ rho_y > 0
    /\ minsoc[v] <= inisoc[v] /\ inisoc[v] = maxsoc[v]
    /\ tarsoc[v] = maxsoc[v] + 1
    /\ UnitStep(pmax_pos, v) /\ ~Departed(v, LastFlowStep) /\ LimitsAllow(v)

\* v, alone in the cluster, starts at its minimum SOC with a target one
\* unit below it, and can discharge in the last step
UndershootCase(v) ==
    /\ V = {v} /\ rho_y > 0
    /\ inisoc[v] <= maxsoc[v] /\ inisoc[v] = minsoc[v]
    /\ tarsoc[v] = minsoc[v] - 1
    /\ UnitStep(pmax_neg, v) /\ ~Departed(v, LastFlowStep) /\ LimitsAllow(v)

\* C22: in a solved model the SOC of every non-terminal index is within
\* [minSOC, maxSOC], while the terminal SOC is held only by non-negativity,
\* by conservation from the last step and by the two deviation inequalities:
\* a vehicle at its maximum SOC whose target lies above it ends above maxSOC,
\* a vehicle at its minimum SOC whose target lies below it ends below minSOC.
C22_TerminalSocUnbounded ==
    Solved =>
        \A v \in V :
            /\ \A t \in T : minsoc[v] <= model.s[v][t] /\ model.s[v][t] <= maxsoc[v]
            /\ model.s[v][LastStep] >= 0
            /\ model.s[v][LastStep] * bcap[v] =
                  model.s[v][LastFlowStep] * bcap[v]
                  + (model.p_ev_pos[v][LastFlowStep] - model.p_ev_neg[v][LastFlowStep])
                    * opt_step * SocScale
            /\ tarsoc[v] - model.s[v][LastStep] <= model.y[v]
            /\ model.s[v][LastStep] - tarsoc[v] <= model.y[v]
            /\ OvershootCase(v) => model.s[v][LastStep] > maxsoc[v]
            /\ UndershootCase(v) => model.s[v][LastStep] < minsoc[v]

\* a solved model over two steps whose terminal SOC is above the maximum SOC
\* while the SOC of the two earlier indices is within the bounds
C22_Witness ==
    /\ Solved
    /\ \E v \in V :
        /\ OvershootCase(v)
        /\ Cardinality(T) = 2
        /\ model.s[v][LastStep] > maxsoc[v]
        /\ \A t \in T : minsoc[v] <= model.s[v][t] /\ model.s[v][t] <= maxsoc[v]

\* a returned trajectory whose terminal SOC is below the minimum SOC
C22_WitnessBelow ==
    /\ pc = "returned" /\ result = "optimal"
    /\ \E v \in V :
        /\ UndershootCase(v)
        /\ s_schedule[v][LastStep] < minsoc[v]
        /\ \A t \in T : minsoc[v] <= s_schedule[v][t] /\ s_schedule[v][t] <= maxsoc[v]

Abs(x) == IF x < 0 THEN 0 - x ELSE x

\* the paths that satisfy every rule in which the target SOC does not occur:
\* the SOC, power and selector rules, and the limit rules for some violation
\* slack
HardFeasiblePaths ==
    {f \in PathChoices(V) :
        LET pos == [v \in V |-> f[v].p_ev_pos]
            neg == [v \in V |-> f[v].p_ev_neg]
            pcc == [t \in T |-> SumOver([v \in V |->
                        (pos[v][t] * EffDen * EffDen) \div ch_eff[v]
                        - neg[v][t] * ds_eff[v]], V)]
        IN \E e \in EpsGrid :
            /\ e <= tolerance * EffDen
            /\ \A t \in T : /\ pcc[t] <= e + upperlimit[t] * EffDen
                            /\ lowerlimit[t] * EffDen - e <= pcc[t]}

\* C23: in every feasible assignment the deviation slack of every vehicle is
\* at least |targetSOC - SOC at the last index|, every larger slack is
\* feasible as well, and the model is feasible exactly when the rules without
\* the target SOC can be satisfied: the target never makes it infeasible.
C23_DeviationSlack ==
    pc = "built" =>
        LET F == Feasible IN
        /\ \A m \in F : \A v \in V :
            /\ m.y[v] >= Abs(tarsoc[v] - m.s[v][LastStep])
            /\ \A y1 \in YGrid :
                 y1 >= Abs(tarsoc[v] - m.s[v][LastStep])
                    => \E ys \in SlackChoices(m.s, V) : ys[v] = y1
        /\ (F = {}) <=> (HardFeasiblePaths = {})

\* a model whose target cannot be reached (no charging power, target above
\* the initial SOC) and that is feasible with a positive deviation slack
C23_Witness ==
    /\ pc = "built"
    /\ \E v \in V :
        /\ pmax_pos[v] = 0 /\ tarsoc[v] > inisoc[v]
        /\ Feasible # {}
        /\ \A m \in Feasible : m.y[v] >= tarsoc[v] - inisoc[v] /\ m.y[v] > 0

\* the conditions on tolerance, SOC data and limits under which the model
\* is said to be feasible
FeasibilityConditions ==
    /\ tolerance >= 0
    /\ \A v \in V : 0 <= minsoc[v] /\ minsoc[v] <= inisoc[v] /\ inisoc[v] <= maxsoc[v]
    /\ \A t \in T : lowerlimit[t] - tolerance <= 0 /\ 0 <= upperlimit[t] + tolerance

\* m has no power anywhere and the initial SOC at every index
ZeroSchedule(m) ==
    /\ \A v \in V : \A t \in T :
        m.p_ev[v][t] = 0 /\ m.p_ev_pos[v][t] = 0 /\ m.p_ev_neg[v][t] = 0
    /\ \A v \in V : \A t \in Tp : m.s[v][t] = inisoc[v]
    /\ \A t \in T : m.p_cc[t] = 0

\* the assignments with no power anywhere, the initial SOC at every index,
\* any selector values and any slacks
ZeroAssignments ==
    {[p_ev |-> [v \in V |-> [t \in T |-> 0]],
      p_ev_pos |-> [v \in V |-> [t \in T |-> 0]],
      p_ev_neg |-> [v \in V |-> [t \in T |-> 0]],
      x_ev |-> [v \in V |-> [t \in T |-> x]],
      s |-> [v \in V |-> [t \in Tp |-> inisoc[v]]],
      p_cc |-> [t \in T |-> 0], eps |-> e, y |-> ys] :
        x \in Binary, e \in EpsGrid, ys \in [V -> YGrid]}

\* m satisfies every rule of the model
SatisfiesRules(m) ==
    /\ \A v \in V :
        /\ initialsoc(m, v)
        /\ individual_pos_deviation(m, v)
        /\ individual_neg_deviation(m, v)
        /\ \A t \in T :
            /\ minimumsoc(m, v, t) /\ maximumsoc(m, v, t)
            /\ storageConservation(m, v, t)
            /\ chargepowerlimit(m, v, t)
            /\ combinatorics_ch(m, v, t) /\ combinatorics_ds(m, v, t)
    /\ cluster_limit_violation(m)
    /\ \A t \in T :
        ccpower(m, t) /\ cluster_upper_limit(m, t) /\ cluster_lower_limit(m, t)

\* C24: whenever the tolerance is not negative, every vehicle has
\* 0 <= minSOC <= initialSOC <= maxSOC and lowerLimit(t) - tolerance <= 0 <=
\* upperLimit(t) + tolerance at every step, the built model is feasible: the
\* all-zero power schedule with constant SOC is a feasible assignment.
C24_GuaranteedFeasibility ==
    (pc = "built" /\ FeasibilityConditions) =>
        \E m \in ZeroAssignments : SatisfiesRules(m)

\* a built model that meets the conditions only thanks to the tolerance (an
\* upper limit below zero), with a vehicle able to charge, and is feasible
C24_Witness ==
    /\ pc = "built" /\ FeasibilityConditions
    /\ tolerance > 0
    /\ \E t \in T : upperlimit[t] < 0
    /\ \E v \in V : pmax_pos[v] > 0 /\ ~Departed(v, 0)
    /\ \E m \in Feasible : ZeroSchedule(m)

\* a built model that meets the conditions with two vehicles whose combined
\* maximum charge power is above the upper limit, and is feasible
C24_WitnessCombined ==
    /\ pc = "built" /\ FeasibilityConditions
    /\ tolerance = 0
    /\ Cardinality(V) = 2
    /\ \A t \in T : SumOver(pmax_pos, V) > upperlimit[t]
    /\ Feasible # {}

\* a built model outside the conditions that is infeasible
C24_InfeasibleOutside == pc = "built" /\ ~FeasibilityConditions /\ Feasible = {}

Max(a, b) == IF a >= b THEN a ELSE b

\* the largest excess of the aggregate power of the solved model over the
\* upper limit and under the lower limit (units of 1/EffDen kW)
UpperExcess == SetMax({model.p_cc[t] - upperlimit[t] * EffDen : t \in T})

LowerExcess == SetMax({lowerlimit[t] * EffDen - model.p_cc[t] : t \in T})

\* C25: in every optimal assignment, with rho_y > 0 the deviation slack of
\* every vehicle equals |targetSOC - SOC at the last index|, and with
\* rho_eps > 0 the violation slack equals the largest of 0, the greatest
\* excess over the upper limit and the greatest shortfall under the lower one.
C25_SlacksTight ==
    Solved =>
        /\ rho_y > 0 =>
              \A v \in V : model.y[v] = Abs(tarsoc[v] - model.s[v][LastStep])
        /\ rho_eps > 0 => model.eps = Max(0, Max(UpperExcess, LowerExcess))

\* an optimal assignment under positive weights whose two slacks are both
\* positive, and tight
C25_Witness ==
    /\ Solved /\ rho_y > 0 /\ rho_eps > 0
    /\ model.eps > 0 /\ model.eps = Max(UpperExcess, LowerExcess)
    /\ \E v \in V : model.y[v] > 0 /\ model.y[v] = Abs(tarsoc[v] - model.s[v][LastStep])

\* an optimal assignment under rho_y = 0 whose deviation slack is not tight
C25_LooseWithoutWeight ==
    /\ Solved /\ rho_y = 0
    /\ \E v \in V : model.y[v] > Abs(tarsoc[v] - model.s[v][LastStep])

\* every vehicle has every attribute and the limits are keyed by the steps of
\* the horizon
WellFormed == ~MissingAttribute /\ ~LimitKeysMismatch

\* C26: for every horizon of consecutive step identifiers, whatever its first
\* identifier, the model is built (no KeyError leaves reschedule) and in every
\* solved model the SOC at the first identifier is the initial SOC.
C26_AnyFirstIndex ==
    WellFormed =>
        /\ ~(pc = "raised" /\ exc = "KeyError")
        /\ Solved => \A v \in V : model.s[v][FirstStep] = inisoc[v]

\* a horizon starting after 0: the construction ends with a KeyError
C26_KeyErrorReached ==
    WellFormed /\ FirstStep > 0 /\ pc = "raised" /\ exc = "KeyError"

\* a horizon starting before 0: the model is solved with the SOC of the first
\* identifier away from the initial SOC
C26_UnpinnedReached ==
    /\ WellFormed /\ FirstStep < 0 /\ Solved
    /\ \E v \in V : model.s[v][FirstStep] # inisoc[v]

\* the interval of step t, [ts + t * t_delta, ts + (t + 1) * t_delta), extends
\* past the estimated departure time of v
LeavesBeforeEndOf(v, t) ==
    system.ts + (t + 1) * system.t_delta > system.evs[v].t_dep_est

\* the estimated departure of v is not a whole number of steps after ts
FractionalDeparture(v) ==
    (system.evs[v].t_dep_est - system.ts) % system.t_delta # 0

\* C27: in the control protocol, after a successful solve, the power
\* scheduled for a connected vehicle is 0 at every step of the horizon whose
\* interval extends past the estimated departure time of the vehicle, also
\* when the departure is not a whole number of steps after ts.
C27_NoPowerInDepartureStep ==
    (pc \in {"returned", "applied"} /\ result = "optimal") =>
        \A v \in ConnectedVehicles : \A t \in T :
            LeavesBeforeEndOf(v, t) => p_schedule[v][t] = 0

\* a control cycle that supplies power to a vehicle in the step during which
\* it is estimated to leave
C27_SuppliedWhileLeaving ==
    /\ pc = "applied" /\ result = "optimal"
    /\ \E cu \in Chargers :
        /\ connected_ev[cu] # None
        /\ FractionalDeparture(connected_ev[cu])
        /\ LeavesBeforeEndOf(connected_ev[cu], 0)
        /\ cu_supply[cu] # <<>> /\ cu_supply[cu][Len(cu_supply[cu])] > 0

====
